---- MODULE Spec2Model ----
(***************************************************************************)
(* The request handlers of backend/app.py: analyze_recipe (/api/analyze)   *)
(* and get_ingredient_database (/api/ingredients), with the four analyzers *)
(* they call.  A Python str is a sequence of one-character strings, a JSON *)
(* value is a tagged record, and each handler invocation runs in a slot    *)
(* with its own program counter and local variables.                       *)
(***************************************************************************)
EXTENDS Integers, Sequences, FiniteSets, TLC

VARIABLES
    CALORIE_DATABASE,  \* CalorieEstimator.CALORIE_DATABASE: <<key, calories>> pairs, insertion order
    request,           \* slot -> the body of the request being handled
    pc,                \* slot -> position of the handler in analyze_recipe
    frame,             \* slot -> local variables of analyze_recipe
    calls,             \* slot -> analyzer calls made so far, with their arguments
    raised,            \* slot -> where an exception was raised while handling ("none" if nowhere)
    responses,         \* slot -> responses returned for the request
    listing            \* the last response of /api/ingredients

vars == <<CALORIE_DATABASE, request, pc, frame, calls, raised, responses, listing>>

----------------------------------------------------------------------------
(* Bounds *)

\* concurrent request slots (worker threads)
NumRequests == 2
\* longest ingredients array a request carries
MaxIngredients == 2
Slots == 1..NumRequests

----------------------------------------------------------------------------
(* Python strings *)

Whitespace == {" ", "\t", "\n"}

RECURSIVE lstrip(_)
lstrip(s) == IF s # <<>> /\ Head(s) \in Whitespace THEN lstrip(Tail(s)) ELSE s

RECURSIVE rstrip(_)
rstrip(s) ==
    IF s # <<>> /\ s[Len(s)] \in Whitespace THEN rstrip(SubSeq(s, 1, Len(s) - 1)) ELSE s

\* str.strip()
strip(s) == rstrip(lstrip(s))

\* code point of a character, the order sorted() compares strings by
Ord(c) ==
    CASE c = "\t" -> 9
      [] c = "\n" -> 10
      [] c = " " -> 32
      [] c = "." -> 46
      [] c = "a" -> 97
      [] c = "b" -> 98
      [] c = "f" -> 102
      [] c = "m" -> 109
      [] c = "s" -> 115
      [] OTHER -> 255

\* s < t for Python strings
RECURSIVE StrLess(_, _)
StrLess(s, t) ==
    IF t = <<>> THEN FALSE
    ELSE IF s = <<>> THEN TRUE
    ELSE IF Head(s) # Head(t) THEN Ord(Head(s)) < Ord(Head(t))
    ELSE StrLess(Tail(s), Tail(t))

\* insert x into the sorted sequence l, after the elements equal to it
RECURSIVE Insert(_, _)
Insert(x, l) ==
    IF l = <<>> THEN <<x>>
    ELSE IF StrLess(x, Head(l)) THEN <<x>> \o l
    ELSE <<Head(l)>> \o Insert(x, Tail(l))

\* sorted(l) for a list of strings
RECURSIVE sorted(_)
sorted(l) == IF l = <<>> THEN <<>> ELSE Insert(l[Len(l)], sorted(SubSeq(l, 1, Len(l) - 1)))

\* k in s, for strings
IsSubstring(k, s) ==
    \E i \in 0..(Len(s) - Len(k)) : SubSeq(s, i + 1, i + Len(k)) = k

\* s.find(k): 0-based index of the first occurrence, Len(s) if none
Find(k, s) ==
    LET hits == {i \in 0..(Len(s) - Len(k)) : SubSeq(s, i + 1, i + Len(k)) = k}
    IN  IF hits = {} THEN Len(s) ELSE CHOOSE i \in hits : \A j \in hits : i <= j

RECURSIVE SumSeq(_)
SumSeq(l) == IF l = <<>> THEN 0 ELSE Head(l) + SumSeq(Tail(l))

Max(a, b) == IF a >= b THEN a ELSE b

----------------------------------------------------------------------------
(* JSON values of a request body *)

JAbsent == [t |-> "absent", v |-> <<>>]   \* the key is not in the object
JNull == [t |-> "null", v |-> <<>>]       \* null, false or 0: falsy, no len(), no strip()
JNumber == [t |-> "number", v |-> <<>>]   \* a non-zero number or true: truthy, no len(), no strip()
JStr(s) == [t |-> "str", v |-> s]
JList(l) == [t |-> "list", v |-> l]

\* bool(x) of a JSON value
Truthy(j) ==
    CASE j.t \in {"absent", "null"} -> FALSE
      [] j.t = "number" -> TRUE
      [] OTHER -> j.v # <<>>

\* dict.get(key, default)
Get(j, default) == IF j.t = "absent" THEN default ELSE j

NoValue == [t |-> "none"]

----------------------------------------------------------------------------
(* utils/calorie_estimator.py: CalorieEstimator *)

\* calories of an ingredient no database key matches
DEFAULT_CALORIES == 2

\* the database the process loads at start
DefaultDatabase == << <<(<<"a">>), 3>>, <<(<<"a", " ", "b">>), 6>> >>

\* the indices of the database keys found in the ingredient
MatchingKeys(ing, db) ==
    {i \in 1..Len(db) : db[i][1] # <<>> /\ IsSubstring(db[i][1], strip(ing))}

\* the longest matching key wins, the first inserted among equally long ones
BestKey(ing, db) ==
    LET m == MatchingKeys(ing, db)
    IN  CHOOSE i \in m : \A j \in m :
            \/ Len(db[i][1]) > Len(db[j][1])
            \/ Len(db[i][1]) = Len(db[j][1]) /\ i <= j

IngredientCalories(ing, db) ==
    IF MatchingKeys(ing, db) = {} THEN DEFAULT_CALORIES ELSE db[BestKey(ing, db)][2]

\* servings with no floor: an empty ingredient list gives 0 servings
ServingsEstimate_NoFloor(n) == IF n <= 1 THEN n ELSE IF n <= 2 THEN 2 ELSE 4

\* servings banded on the ingredient count, never below 1
ServingsEstimate(n) == IF n <= 1 THEN 1 ELSE IF n <= 2 THEN 2 ELSE 4

\* CalorieEstimator.estimate_calories(ingredients)
estimate_calories(ingredients, db) ==
    LET cal == [i \in 1..Len(ingredients) |-> IngredientCalories(ingredients[i], db)]
    IN  [total_calories |-> SumSeq(cal),
         servings_estimate |-> ServingsEstimate(Len(ingredients)),
         breakdown |-> [i \in 1..Len(ingredients) |->
                            [ingredient |-> ingredients[i], calories |-> cal[i]]],
         matched |-> [i \in 1..Len(ingredients) |->
                            MatchingKeys(ingredients[i], db) # {}]]

----------------------------------------------------------------------------
(* utils/difficulty_analyzer.py: DifficultyAnalyzer *)

STEP_DELIMITERS == {".", "\n"}
TECHNIQUE_KEYWORDS == << <<"f">> >>
INGREDIENT_WEIGHT == 1
STEP_WEIGHT == 1
TECHNIQUE_BONUS == 3
MEDIUM_FROM == 3
HARD_FROM == 6

\* the number of non-blank segments between step delimiters
RECURSIVE CountSteps(_, _)
CountSteps(text, open) ==
    IF text = <<>> THEN (IF open THEN 1 ELSE 0)
    ELSE IF Head(text) \in STEP_DELIMITERS
         THEN (IF open THEN 1 ELSE 0) + CountSteps(Tail(text), FALSE)
         ELSE CountSteps(Tail(text), open \/ Head(text) \notin Whitespace)

\* the keywords of the table found in the text, in order of first appearance
RECURSIVE ByFirstAppearance(_, _)
ByFirstAppearance(found, text) ==
    IF found = {} THEN <<>>
    ELSE LET k == CHOOSE x \in found : \A y \in found :
                      \/ Find(x, text) < Find(y, text)
                      \/ Find(x, text) = Find(y, text) /\ (x = y \/ StrLess(x, y))
         IN  <<k>> \o ByFirstAppearance(found \ {k}, text)

KeywordsFound(table, text) ==
    ByFirstAppearance({table[i] : i \in {j \in 1..Len(table) : IsSubstring(table[j], text)}}, text)

DifficultyLevel(score) ==
    IF score < MEDIUM_FROM THEN "Easy" ELSE IF score < HARD_FROM THEN "Medium" ELSE "Hard"

LevelDescription(level) ==
    CASE level = "Easy" -> "Suitable for beginners"
      [] level = "Medium" -> "Needs some cooking experience"
      [] OTHER -> "For experienced cooks"

\* DifficultyAnalyzer.analyze_difficulty(ingredients, steps)
analyze_difficulty(ingredients, steps) ==
    LET n == Len(ingredients)
        k == CountSteps(steps, FALSE)
        tech == KeywordsFound(TECHNIQUE_KEYWORDS, steps)
        score == INGREDIENT_WEIGHT * n + STEP_WEIGHT * k + TECHNIQUE_BONUS * Len(tech)
    IN  [difficulty |-> DifficultyLevel(score),
         description |-> LevelDescription(DifficultyLevel(score)),
         score |-> score,
         factors |-> << ToString(n) \o " ingredients", ToString(k) \o " steps",
                        ToString(Len(tech)) \o " advanced techniques" >>,
         techniques_found |-> tech,
         ingredient_count |-> n,
         step_count |-> k]

----------------------------------------------------------------------------
(* utils/time_predictor.py: TimePredictor *)

METHOD_KEYWORDS == << <<"m">> >>
METHOD_MINUTES == 50
MINUTES_PER_STEP == 5
MINIMUM_MINUTES == 5
MODERATE_FROM == 30
LONG_FROM == 60

TimeCategory(minutes) ==
    IF minutes < MODERATE_FROM THEN "Quick" ELSE IF minutes < LONG_FROM THEN "Moderate" ELSE "Long"

TimeDisplay(minutes) ==
    IF minutes >= 60
    THEN ToString(minutes \div 60) \o " hr " \o ToString(minutes % 60) \o " min"
    ELSE ToString(minutes) \o " min"

\* TimePredictor.predict_time(steps, step_count)
predict_time(steps, step_count) ==
    LET methods == KeywordsFound(METHOD_KEYWORDS, steps)
        total == Max(MINIMUM_MINUTES, MINUTES_PER_STEP * step_count + METHOD_MINUTES * Len(methods))
    IN  [category |-> TimeCategory(total),
         total_minutes |-> total,
         time_display |-> TimeDisplay(total),
         description |-> TimeCategory(total) \o " recipe",
         methods_detected |-> methods]

----------------------------------------------------------------------------
(* utils/suggestion_generator.py: SuggestionGenerator *)

MEAT_KEYWORDS == << <<"b">> >>
BREAKFAST_KEYWORDS == << <<"a", " ", "b">> >>
ALTERNATIVES == << <<(<<"b">>), "Try a leaner cut">> >>
SPICES == << <<(<<"a">>), "Black pepper">>, <<(<<"b">>), "Black pepper">> >>
FAMILY_SERVINGS == 4

RECURSIVE Dedup(_)
Dedup(l) ==
    IF l = <<>> THEN <<>>
    ELSE LET rest == Dedup(SubSeq(l, 1, Len(l) - 1))
         IN  IF \E i \in 1..Len(rest) : rest[i] = l[Len(l)] THEN rest ELSE Append(rest, l[Len(l)])

ContainsAny(table, text) == \E i \in 1..Len(table) : IsSubstring(table[i], text)

\* the suggestions of the table rows whose keyword an ingredient contains, input order
RECURSIVE Lookups(_, _)
Lookups(table, ingredients) ==
    IF ingredients = <<>> THEN <<>>
    ELSE LET rows == SelectSeq(table, LAMBDA row : IsSubstring(row[1], Head(ingredients)))
         IN  [i \in 1..Len(rows) |-> rows[i][2]] \o Lookups(table, Tail(ingredients))

QuickTip(level) ==
    CASE level = "Easy" -> "Great for a weeknight"
      [] level = "Medium" -> "Read every step before you start"
      [] OTHER -> "Prepare all ingredients in advance"

\* SuggestionGenerator.generate_suggestions(ingredients, steps, difficulty, total_calories, servings)
generate_suggestions(ingredients, steps, difficulty, total_calories, servings_estimate) ==
    [diet_type |-> IF \E i \in 1..Len(ingredients) : ContainsAny(MEAT_KEYWORDS, ingredients[i])
                   THEN "Non-Vegetarian" ELSE "Vegetarian",
     meal_type |-> IF \E i \in 1..Len(ingredients) : ContainsAny(BREAKFAST_KEYWORDS, ingredients[i])
                   THEN "Breakfast" ELSE "Main Course",
     healthy_alternatives |-> Dedup(Lookups(ALTERNATIVES, ingredients)),
     spice_suggestions |-> Dedup(Lookups(SPICES, ingredients)),
     serving_tips |-> IF servings_estimate >= FAMILY_SERVINGS
                      THEN <<"Scale for the family">> ELSE <<"Individual portions">>,
     quick_tip |-> QuickTip(difficulty)]

----------------------------------------------------------------------------
(* The requests a client can send to /api/analyze *)

JName(s) == [t |-> "str", s |-> s]
NoName == [t |-> "absent", s |-> ""]

\* The analyzers are functions of their arguments, so whether one raises is decided
\* by the request: `fault` names the call that raises on this request's input
\* ("response": compiling or serialising the response does), "none" if none does.
Faults == {"none", "estimate_calories", "analyze_difficulty", "predict_time",
           "generate_suggestions", "response"}

\* kind: "invalid" (get_json raises: not JSON), "falsy" (null, 0, "", []),
\* "nonobject" (a non-empty array, string or number), "object"
Body(kind, name, ingredients, steps, fault) ==
    [kind |-> kind, recipe_name |-> name, ingredients |-> ingredients, steps |-> steps,
     fault |-> fault]

NoRequest == Body("none", NoName, JAbsent, JAbsent, "none")

IngredientStrings ==
    { <<>>, <<" ", "\t">>, <<"a">>, <<" ", "b", " ">>, <<"a", " ", "b">> }

IngredientItems == {JStr(s) : s \in IngredientStrings} \cup {JNumber}

IngredientLists == UNION {[1..k -> IngredientItems] : k \in 0..MaxIngredients}

IngredientsValues == {JAbsent, JNull, JNumber} \cup {JList(l) : l \in IngredientLists}

StepsStrings ==
    { <<>>, <<" ", "\n">>, <<"s">>, <<"s", ".", " ", "f">>, <<"m", ".", "s", ".", "s", ".">> }

StepsValues == {JAbsent, JNull, JNumber} \cup {JStr(s) : s \in StepsStrings}

Names == {NoName, JName("Pancakes")}

Requests ==
    {Body("invalid", NoName, JAbsent, JAbsent, "none"),
     Body("falsy", NoName, JAbsent, JAbsent, "none"),
     Body("nonobject", NoName, JAbsent, JAbsent, "none")}
    \cup {Body("object", n, i, s, f) :
              n \in Names, i \in IngredientsValues, s \in StepsValues, f \in Faults}

\* the requests of the concurrent runs
ConcurrentRequests ==
    {Body("object", NoName,
          JList(<<JStr(<<" ", "b", " ">>), JStr(<<"a">>)>>), JStr(<<"s", ".", " ", "f">>), "none"),
     Body("object", JName("Pancakes"),
          JList(<<JStr(<<"a", " ", "b">>)>>), JStr(<<"m", ".", "s", ".", "s", ".">>), "none"),
     Body("object", NoName, JList(<<JStr(<<" ", "\t">>)>>), JStr(<<"s">>), "none"),
     Body("object", NoName, JList(<<JStr(<<"a">>)>>), JStr(<<" ", "\n">>), "none"),
     Body("object", NoName, JList(<<JStr(<<"a">>)>>), JStr(<<"s">>), "predict_time")}

\* the contents the database can have been loaded with
Databases ==
    {<<>>, DefaultDatabase, << <<(<<"b">>), 1>>, <<(<<"a", " ", "b">>), 6>>, <<(<<"a">>), 3>> >>}

----------------------------------------------------------------------------
(* analyze_recipe: validation *)

Error(code, message) == [code |-> code, body |-> [status |-> "error", message |-> message]]

\* `not ingredients or len(ingredients) == 0`
CheckIngredients(ingredients) ==
    IF ~Truthy(ingredients) THEN "reject"
    ELSE IF ingredients.t = "number" THEN "raise"
    ELSE IF Len(ingredients.v) = 0 THEN "reject" ELSE "pass"

\* `not steps`: whitespace-only steps pass
CheckSteps_NoStrip(steps) ==
    IF ~Truthy(steps) THEN "reject" ELSE IF steps.t # "str" THEN "raise" ELSE "pass"

\* `not steps or steps.strip() == ''`
CheckSteps(steps) ==
    IF ~Truthy(steps) THEN "reject"
    ELSE IF steps.t # "str" THEN "raise"
    ELSE IF strip(steps.v) = <<>> THEN "reject" ELSE "pass"

\* [ing for ing in ingredients if ing.strip()]: the kept entries are not trimmed
FilterIngredients_Untrimmed(l) ==
    LET kept == SelectSeq(l, LAMBDA ing : strip(ing.v) # <<>>)
    IN  [i \in 1..Len(kept) |-> kept[i].v]

\* [ing.strip() for ing in ingredients if ing.strip()]
FilterIngredients(l) ==
    LET kept == SelectSeq(l, LAMBDA ing : strip(ing.v) # <<>>)
    IN  [i \in 1..Len(kept) |-> strip(kept[i].v)]

Outcome(result, message, name, ingredients, steps) ==
    [result |-> result, message |-> message, recipe_name |-> name,
     ingredients |-> ingredients, steps |-> steps]

Rejected(message) == Outcome("400", message, NoName, <<>>, <<>>)
Raises(exception) == Outcome("500", exception, NoName, <<>>, <<>>)

\* the handler from request.get_json() to the filtered ingredient list
Validate(d) ==
    IF d.kind = "invalid" THEN Raises("BadRequest")
    ELSE IF d.kind = "falsy" THEN Rejected("No data provided")
    ELSE IF d.kind = "nonobject" THEN Raises("AttributeError")
    ELSE IF d.recipe_name = NoName /\ d.ingredients = JAbsent /\ d.steps = JAbsent
         THEN Rejected("No data provided")
    ELSE LET recipe_name == IF d.recipe_name = NoName THEN JName("Untitled Recipe")
                            ELSE d.recipe_name
             ingredients == Get(d.ingredients, JList(<<>>))
             steps == Get(d.steps, JStr(<<>>))
         IN  IF CheckIngredients(ingredients) = "raise" THEN Raises("TypeError")
             ELSE IF CheckIngredients(ingredients) = "reject"
                  THEN Rejected("Please provide at least one ingredient")
             ELSE IF CheckSteps(steps) = "raise" THEN Raises("AttributeError")
             ELSE IF CheckSteps(steps) = "reject" THEN Rejected("Please provide cooking steps")
             ELSE IF \E i \in 1..Len(ingredients.v) : ingredients.v[i].t # "str"
                  THEN Raises("AttributeError")
             ELSE Outcome("ok", "", recipe_name, FilterIngredients(ingredients.v), steps.v)

----------------------------------------------------------------------------
(* analyze_recipe: state of one invocation *)

EmptyFrame ==
    [recipe_name |-> NoName, ingredients |-> <<>>, steps |-> <<>>,
     calorie_data |-> NoValue, difficulty_data |-> NoValue, time_data |-> NoValue,
     suggestions |-> NoValue]

\* round(a / b) rounding halves up
round_HalfUp(a, b) == IF 2 * (a % b) >= b THEN (a \div b) + 1 ELSE a \div b

\* round(a / b) of Python 3: to the nearest integer, halves to the even one
round(a, b) ==
    LET q == a \div b
        rem == a % b
    IN  IF 2 * rem < b THEN q
        ELSE IF 2 * rem > b THEN q + 1
        ELSE IF q % 2 = 0 THEN q ELSE q + 1

\* the response with difficulty.stats.steps taken from ingredient_count
Compile_SwappedStats(f) ==
    [status |-> "success",
     recipe_name |-> f.recipe_name,
     analysis |->
        [calories |->
            [total |-> f.calorie_data.total_calories,
             per_serving |-> round(f.calorie_data.total_calories,
                                   f.calorie_data.servings_estimate),
             servings |-> f.calorie_data.servings_estimate,
             breakdown |-> f.calorie_data.breakdown],
         difficulty |->
            [level |-> f.difficulty_data.difficulty,
             description |-> f.difficulty_data.description,
             score |-> f.difficulty_data.score,
             factors |-> f.difficulty_data.factors,
             techniques |-> f.difficulty_data.techniques_found,
             stats |-> [ingredients |-> f.difficulty_data.ingredient_count,
                        steps |-> f.difficulty_data.ingredient_count]],
         time |->
            [category |-> f.time_data.category,
             total_minutes |-> f.time_data.total_minutes,
             display |-> f.time_data.time_display,
             description |-> f.time_data.description,
             methods |-> f.time_data.methods_detected],
         suggestions |->
            [diet_type |-> f.suggestions.diet_type,
             meal_type |-> f.suggestions.meal_type,
             healthy_alternatives |-> f.suggestions.healthy_alternatives,
             spice_recommendations |-> f.suggestions.spice_suggestions,
             serving_tips |-> f.suggestions.serving_tips,
             quick_tip |-> f.suggestions.quick_tip]]]

\* the response dict compiled from the four results
Compile(f) ==
    [status |-> "success",
     recipe_name |-> f.recipe_name,
     analysis |->
        [calories |->
            [total |-> f.calorie_data.total_calories,
             per_serving |-> round(f.calorie_data.total_calories,
                                   f.calorie_data.servings_estimate),
             servings |-> f.calorie_data.servings_estimate,
             breakdown |-> f.calorie_data.breakdown],
         difficulty |->
            [level |-> f.difficulty_data.difficulty,
             description |-> f.difficulty_data.description,
             score |-> f.difficulty_data.score,
             factors |-> f.difficulty_data.factors,
             techniques |-> f.difficulty_data.techniques_found,
             stats |-> [ingredients |-> f.difficulty_data.ingredient_count,
                        steps |-> f.difficulty_data.step_count]],
         time |->
            [category |-> f.time_data.category,
             total_minutes |-> f.time_data.total_minutes,
             display |-> f.time_data.time_display,
             description |-> f.time_data.description,
             methods |-> f.time_data.methods_detected],
         suggestions |->
            [diet_type |-> f.suggestions.diet_type,
             meal_type |-> f.suggestions.meal_type,
             healthy_alternatives |-> f.suggestions.healthy_alternatives,
             spice_recommendations |-> f.suggestions.spice_suggestions,
             serving_tips |-> f.suggestions.serving_tips,
             quick_tip |-> f.suggestions.quick_tip]]]

----------------------------------------------------------------------------
(* Initial states *)

InitSlots ==
    /\ request = [r \in Slots |-> NoRequest]
    /\ pc = [r \in Slots |-> "idle"]
    /\ frame = [r \in Slots |-> EmptyFrame]
    /\ calls = [r \in Slots |-> <<>>]
    /\ raised = [r \in Slots |-> "none"]
    /\ responses = [r \in Slots |-> <<>>]
    /\ listing = NoValue

Init == CALORIE_DATABASE = DefaultDatabase /\ InitSlots

InitConcurrent == CALORIE_DATABASE \in Databases /\ InitSlots

----------------------------------------------------------------------------
(* analyze_recipe: steps *)

\* a POST /api/analyze with body d is dispatched to a free worker
Receive(r, d) ==
    /\ pc[r] = "idle"
    /\ request' = [request EXCEPT ![r] = d]
    /\ pc' = [pc EXCEPT ![r] = "validate"]
    /\ UNCHANGED <<CALORIE_DATABASE, frame, calls, raised, responses, listing>>

\* the response is sent: the request and the locals of the invocation are gone
Complete(r) ==
    /\ pc[r] = "done"
    /\ request' = [request EXCEPT ![r] = NoRequest]
    /\ pc' = [pc EXCEPT ![r] = "idle"]
    /\ frame' = [frame EXCEPT ![r] = EmptyFrame]
    /\ calls' = [calls EXCEPT ![r] = <<>>]
    /\ raised' = [raised EXCEPT ![r] = "none"]
    /\ responses' = [responses EXCEPT ![r] = <<>>]
    /\ UNCHANGED <<CALORIE_DATABASE, listing>>

\* `return jsonify(...), code`
Return(r, response) ==
    /\ responses' = [responses EXCEPT ![r] = Append(@, response)]
    /\ pc' = [pc EXCEPT ![r] = "done"]

\* no except clause: the exception leaves the handler and nothing is returned
Except_Escapes(r, where, e) ==
    /\ raised' = [raised EXCEPT ![r] = where]
    /\ pc' = [pc EXCEPT ![r] = "done"]
    /\ UNCHANGED responses

\* an exception raised at `where` reaches `except Exception as e`
Except(r, where, e) ==
    /\ raised' = [raised EXCEPT ![r] = where]
    /\ Return(r, Error(500, "An error occurred: " \o e))

\* `ingredients` is a module-level global: the filtered list replaces every worker's
analyze_recipe_validate_GlobalIngredients(r) ==
    /\ pc[r] = "validate"
    /\ LET v == Validate(request[r])
       IN  CASE v.result = "400" ->
                    /\ Return(r, Error(400, v.message))
                    /\ UNCHANGED <<frame, raised>>
             [] v.result = "500" ->
                    /\ Except(r, "input", v.message)
                    /\ UNCHANGED frame
             [] OTHER ->
                    /\ frame' = [q \in Slots |->
                                    IF q = r
                                    THEN [frame[q] EXCEPT !.recipe_name = v.recipe_name,
                                                          !.ingredients = v.ingredients,
                                                          !.steps = v.steps]
                                    ELSE [frame[q] EXCEPT !.ingredients = v.ingredients]]
                    /\ pc' = [pc EXCEPT ![r] = "estimate_calories"]
                    /\ UNCHANGED <<raised, responses>>
    /\ UNCHANGED <<CALORIE_DATABASE, request, calls, listing>>

\* get_json, the validation of the fields, the filtering of the ingredients
analyze_recipe_validate(r) ==
    /\ pc[r] = "validate"
    /\ LET v == Validate(request[r])
       IN  CASE v.result = "400" ->
                    /\ Return(r, Error(400, v.message))
                    /\ UNCHANGED <<frame, raised>>
             [] v.result = "500" ->
                    /\ Except(r, "input", v.message)
                    /\ UNCHANGED frame
             [] OTHER ->
                    /\ frame' = [frame EXCEPT ![r].recipe_name = v.recipe_name,
                                              ![r].ingredients = v.ingredients,
                                              ![r].steps = v.steps]
                    /\ pc' = [pc EXCEPT ![r] = "estimate_calories"]
                    /\ UNCHANGED <<raised, responses>>
    /\ UNCHANGED <<CALORIE_DATABASE, request, calls, listing>>

Call(r, fn, args) == calls' = [calls EXCEPT ![r] = Append(@, [fn |-> fn, args |-> args])]

\* calorie_data = CalorieEstimator.estimate_calories(ingredients)
analyze_recipe_calories(r) ==
    /\ pc[r] = "estimate_calories"
    /\ Call(r, "estimate_calories", [ingredients |-> frame[r].ingredients])
    /\ IF request[r].fault = "estimate_calories"
       THEN Except(r, "estimate_calories", "Exception") /\ UNCHANGED frame
       ELSE /\ frame' = [frame EXCEPT ![r].calorie_data =
                            estimate_calories(frame[r].ingredients, CALORIE_DATABASE)]
            /\ pc' = [pc EXCEPT ![r] = "analyze_difficulty"]
            /\ UNCHANGED <<raised, responses>>
    /\ UNCHANGED <<CALORIE_DATABASE, request, listing>>

\* difficulty_data = DifficultyAnalyzer.analyze_difficulty(ingredients, steps)
analyze_recipe_difficulty(r) ==
    /\ pc[r] = "analyze_difficulty"
    /\ Call(r, "analyze_difficulty",
            [ingredients |-> frame[r].ingredients, steps |-> frame[r].steps])
    /\ IF request[r].fault = "analyze_difficulty"
       THEN Except(r, "analyze_difficulty", "Exception") /\ UNCHANGED frame
       ELSE /\ frame' = [frame EXCEPT ![r].difficulty_data =
                            analyze_difficulty(frame[r].ingredients, frame[r].steps)]
            /\ pc' = [pc EXCEPT ![r] = "predict_time"]
            /\ UNCHANGED <<raised, responses>>
    /\ UNCHANGED <<CALORIE_DATABASE, request, listing>>

\* predict_time is given the ingredient count
TimeArguments_IngredientCount(f) ==
    [steps |-> f.steps, step_count |-> f.difficulty_data.ingredient_count]

\* the arguments of TimePredictor.predict_time
TimeArguments(f) == [steps |-> f.steps, step_count |-> f.difficulty_data.step_count]

\* time_data = TimePredictor.predict_time(steps, difficulty_data['step_count'])
analyze_recipe_time(r) ==
    /\ pc[r] = "predict_time"
    /\ Call(r, "predict_time", TimeArguments(frame[r]))
    /\ IF request[r].fault = "predict_time"
       THEN Except(r, "predict_time", "Exception") /\ UNCHANGED frame
       ELSE /\ frame' = [frame EXCEPT ![r].time_data =
                            predict_time(TimeArguments(frame[r]).steps,
                                         TimeArguments(frame[r]).step_count)]
            /\ pc' = [pc EXCEPT ![r] = "generate_suggestions"]
            /\ UNCHANGED <<raised, responses>>
    /\ UNCHANGED <<CALORIE_DATABASE, request, listing>>

\* the arguments of SuggestionGenerator.generate_suggestions
SuggestionArguments(f) ==
    [ingredients |-> f.ingredients, steps |-> f.steps,
     difficulty |-> f.difficulty_data.difficulty,
     total_calories |-> f.calorie_data.total_calories,
     servings_estimate |-> f.calorie_data.servings_estimate]

\* suggestions = SuggestionGenerator.generate_suggestions(...)
analyze_recipe_suggestions(r) ==
    /\ pc[r] = "generate_suggestions"
    /\ Call(r, "generate_suggestions", SuggestionArguments(frame[r]))
    /\ IF request[r].fault = "generate_suggestions"
       THEN Except(r, "generate_suggestions", "Exception") /\ UNCHANGED frame
       ELSE /\ LET a == SuggestionArguments(frame[r])
               IN  frame' = [frame EXCEPT ![r].suggestions =
                                generate_suggestions(a.ingredients, a.steps, a.difficulty,
                                                     a.total_calories, a.servings_estimate)]
            /\ pc' = [pc EXCEPT ![r] = "response"]
            /\ UNCHANGED <<raised, responses>>
    /\ UNCHANGED <<CALORIE_DATABASE, request, listing>>

\* response = {...}; return jsonify(response), 200
analyze_recipe_response(r) ==
    /\ pc[r] = "response"
    /\ IF request[r].fault = "response"
       THEN Except(r, "response", "Exception")
       ELSE IF frame[r].calorie_data.servings_estimate = 0
       THEN Except(r, "response", "division by zero")
       ELSE Return(r, [code |-> 200, body |-> Compile(frame[r])]) /\ UNCHANGED raised
    /\ UNCHANGED <<CALORIE_DATABASE, request, frame, calls, listing>>

----------------------------------------------------------------------------
(* get_ingredient_database *)

\* the keys in insertion order, unsorted
Listing_Unsorted(db) ==
    LET ingredients == [i \in 1..Len(db) |-> db[i][1]]
    IN  [code |-> 200,
         body |-> [status |-> "success", count |-> Len(ingredients),
                   ingredients |-> ingredients]]

\* the response of /api/ingredients
Listing(db) ==
    LET ingredients == [i \in 1..Len(db) |-> db[i][1]]
    IN  [code |-> 200,
         body |-> [status |-> "success", count |-> Len(ingredients),
                   ingredients |-> sorted(ingredients)]]

get_ingredient_database ==
    /\ listing' = Listing(CALORIE_DATABASE)
    /\ UNCHANGED <<CALORIE_DATABASE, request, pc, frame, calls, raised, responses>>

----------------------------------------------------------------------------
(* Specifications *)

Handle(r) ==
    \/ analyze_recipe_validate(r)
    \/ analyze_recipe_calories(r)
    \/ analyze_recipe_difficulty(r)
    \/ analyze_recipe_time(r)
    \/ analyze_recipe_suggestions(r)
    \/ analyze_recipe_response(r)
    \/ Complete(r)

\* one worker, every request
Next ==
    \/ \E d \in Requests : Receive(1, d)
    \/ Handle(1)

Spec == Init /\ [][Next]_vars

\* several workers and /api/ingredients, any database
NextConcurrent ==
    \/ \E r \in Slots, d \in ConcurrentRequests : Receive(r, d)
    \/ \E r \in Slots : Handle(r)
    \/ get_ingredient_database

SpecConcurrent == InitConcurrent /\ [][NextConcurrent]_vars

----------------------------------------------------------------------------
(* What the claims speak of *)

Responded(r, code) == responses[r] # <<>> /\ responses[r][1].code = code

NonBlank(s) == \E i \in 1..Len(s) : s[i] \notin Whitespace

\* s without its leading and trailing whitespace, for a non-blank s
Core(s) ==
    LET solid == {i \in 1..Len(s) : s[i] \notin Whitespace}
    IN  SubSeq(s, CHOOSE i \in solid : \A j \in solid : i <= j,
                  CHOOSE i \in solid : \A j \in solid : i >= j)

\* the body is an object whose ingredients are an array of strings
HasIngredientList(d) ==
    /\ d.kind = "object"
    /\ d.ingredients.t = "list"
    /\ \A i \in 1..Len(d.ingredients.v) : d.ingredients.v[i].t = "str"

\* ... none of which has a non-blank character
EmptyAfterTrim(d) ==
    /\ HasIngredientList(d)
    /\ \A i \in 1..Len(d.ingredients.v) : ~NonBlank(d.ingredients.v[i].v)

\* the body is an object whose steps are absent, empty or whitespace-only
StepsBlank(d) ==
    /\ d.kind = "object"
    /\ \/ d.steps = JAbsent
       \/ d.steps.t = "str" /\ ~NonBlank(d.steps.v)

\* the results the analyzers return for the locals of an invocation
CalorieResult(r) == estimate_calories(frame[r].ingredients, CALORIE_DATABASE)
DifficultyResult(r) == analyze_difficulty(frame[r].ingredients, frame[r].steps)
TimeResult(r) == predict_time(frame[r].steps, DifficultyResult(r).step_count)
SuggestionResult(r) ==
    generate_suggestions(frame[r].ingredients, frame[r].steps, DifficultyResult(r).difficulty,
                         CalorieResult(r).total_calories, CalorieResult(r).servings_estimate)

AnalyzerOrder ==
    <<"estimate_calories", "analyze_difficulty", "predict_time", "generate_suggestions">>

----------------------------------------------------------------------------
(* C1 *)

\* C1: a request whose ingredients are empty after trimming each entry and dropping
\* the blank ones is rejected (it never gets a 200) and reaches no analyzer.
C1_EmptyAfterTrimRejected ==
    \A r \in Slots :
        EmptyAfterTrim(request[r]) =>
            /\ calls[r] = <<>>
            /\ ~Responded(r, 200)

----------------------------------------------------------------------------
(* C2 *)

\* C2: a request whose steps are absent, empty or whitespace-only gets a 400 and
\* reaches no analyzer; a 400 is never returned after an analyzer was called.
C2_BlankStepsGet400 ==
    \A r \in Slots :
        /\ StepsBlank(request[r]) =>
              /\ calls[r] = <<>>
              /\ pc[r] = "done" => Responded(r, 400)
        /\ Responded(r, 400) => calls[r] = <<>>

\* C2 (amended): a request whose steps are absent, empty or whitespace-only reaches
\* no analyzer and gets a 400, or a 500 when its ingredients are a truthy value
\* without a length; a 400 is never returned after an analyzer was called.
C2_BlankStepsRejected ==
    \A r \in Slots :
        /\ StepsBlank(request[r]) =>
              /\ calls[r] = <<>>
              /\ pc[r] = "done" =>
                    IF request[r].ingredients.t = "number"
                    THEN Responded(r, 500) ELSE Responded(r, 400)
        /\ Responded(r, 400) => calls[r] = <<>>

\* whitespace-only steps with a usable ingredient were answered
C2_Witness ==
    \E r \in Slots :
        /\ pc[r] = "done"
        /\ request[r].kind = "object"
        /\ request[r].steps = JStr(<<" ", "\n">>)
        /\ request[r].ingredients = JList(<<JStr(<<"a">>)>>)
        /\ Responded(r, 400)

----------------------------------------------------------------------------
(* C3 *)

\* C3: the analyzers are called in the order estimate_calories, analyze_difficulty,
\* predict_time, generate_suggestions, none of them twice; the first two get the same
\* ingredient list, predict_time gets the step_count analyze_difficulty returned,
\* generate_suggestions gets the difficulty, total_calories and servings_estimate
\* returned before it, and a 200 is returned only after all four calls.
C3_ForwardFlow ==
    \A r \in Slots :
        LET c == calls[r]
            n == Len(c)
        IN  /\ n <= 4
            /\ \A i \in 1..n : c[i].fn = AnalyzerOrder[i]
            /\ n >= 2 => c[2].args.ingredients = c[1].args.ingredients
            /\ n >= 3 =>
                  /\ c[3].args.steps = c[2].args.steps
                  /\ c[3].args.step_count =
                        analyze_difficulty(c[2].args.ingredients, c[2].args.steps).step_count
            /\ n >= 4 =>
                  /\ c[4].args.ingredients = c[1].args.ingredients
                  /\ c[4].args.steps = c[2].args.steps
                  /\ c[4].args.difficulty =
                        analyze_difficulty(c[2].args.ingredients, c[2].args.steps).difficulty
                  /\ c[4].args.total_calories =
                        estimate_calories(c[1].args.ingredients, CALORIE_DATABASE).total_calories
                  /\ c[4].args.servings_estimate =
                        estimate_calories(c[1].args.ingredients, CALORIE_DATABASE).servings_estimate
            /\ Responded(r, 200) => n = 4

\* a 200 for a recipe whose ingredient count differs from its step count
C3_Witness ==
    \E r \in Slots :
        /\ Responded(r, 200)
        /\ Len(calls[r]) = 4
        /\ frame[r].difficulty_data.step_count # frame[r].difficulty_data.ingredient_count

----------------------------------------------------------------------------
(* C4 *)

\* C4: in a 200 response calories.total and calories.servings are the estimator's
\* total_calories and servings_estimate, and calories.per_serving is their quotient
\* rounded to the nearest integer, a half going to the even neighbour.
C4_PerServing ==
    \A r \in Slots :
        Responded(r, 200) =>
            LET c == responses[r][1].body.analysis.calories
                t == CalorieResult(r).total_calories
                s == CalorieResult(r).servings_estimate
                d == 2 * (t - c.per_serving * s)
            IN  /\ c.total = t
                /\ c.servings = s
                /\ -s <= d /\ d <= s
                /\ (d = s \/ d = -s) => c.per_serving % 2 = 0

\* a 200 whose quotient lies halfway between two integers
C4_Witness ==
    \E r \in Slots :
        /\ Responded(r, 200)
        /\ 2 * (CalorieResult(r).total_calories % CalorieResult(r).servings_estimate)
              = CalorieResult(r).servings_estimate

----------------------------------------------------------------------------
(* C5 *)

\* C5: whenever a request reaches the compilation of the response, the
\* servings_estimate the estimator returned is at least 1, also for an empty
\* ingredient list, and no response reports a division by zero.
C5_NoDivisionByZero ==
    \A r \in Slots :
        /\ frame[r].calorie_data # NoValue => frame[r].calorie_data.servings_estimate >= 1
        /\ Responded(r, 500) =>
              responses[r][1].body.message # "An error occurred: division by zero"

\* the response was compiled for an empty filtered ingredient list
C5_Witness ==
    \E r \in Slots :
        /\ Responded(r, 200)
        /\ frame[r].ingredients = <<>>

----------------------------------------------------------------------------
(* C6 *)

\* C6: a handler that has ended has returned exactly one response, one that has not
\* ended none and can take a step; an exception raised anywhere ends in a 500 with
\* status "error"; a 200 is returned only when all four analyzers returned.
C6_OneResponse ==
    \A r \in Slots :
        /\ pc[r] = "done" <=> Len(responses[r]) = 1
        /\ pc[r] # "done" => responses[r] = <<>>
        /\ pc[r] \notin {"idle", "done"} => ENABLED Handle(r)
        /\ responses[r] # <<>> => responses[r][1].code \in {200, 400, 500}
        /\ raised[r] # "none" =>
              /\ Responded(r, 500)
              /\ responses[r][1].body.status = "error"
        /\ Responded(r, 200) =>
              /\ raised[r] = "none"
              /\ Len(calls[r]) = 4
              /\ frame[r].calorie_data # NoValue
              /\ frame[r].difficulty_data # NoValue
              /\ frame[r].time_data # NoValue
              /\ frame[r].suggestions # NoValue

\* an analyzer raised after two others had returned
C6_Witness ==
    \E r \in Slots :
        /\ raised[r] = "predict_time"
        /\ Len(calls[r]) = 3
        /\ Responded(r, 500)

----------------------------------------------------------------------------
(* C7 *)

\* C7: a 200 response has exactly the groups calories, difficulty, time and
\* suggestions with exactly their fields, and every field but per_serving is the
\* field of the analyzer result it is named after, unchanged.
C7_ResponseShape ==
    \A r \in Slots :
        Responded(r, 200) =>
            LET a == responses[r][1].body.analysis
            IN  /\ DOMAIN a = {"calories", "difficulty", "time", "suggestions"}
                /\ DOMAIN a.calories = {"total", "per_serving", "servings", "breakdown"}
                /\ DOMAIN a.difficulty =
                      {"level", "description", "score", "factors", "techniques", "stats"}
                /\ DOMAIN a.difficulty.stats = {"ingredients", "steps"}
                /\ DOMAIN a.time =
                      {"category", "total_minutes", "display", "description", "methods"}
                /\ DOMAIN a.suggestions =
                      {"diet_type", "meal_type", "healthy_alternatives",
                       "spice_recommendations", "serving_tips", "quick_tip"}
                /\ a.calories.total = CalorieResult(r).total_calories
                /\ a.calories.servings = CalorieResult(r).servings_estimate
                /\ a.calories.breakdown = CalorieResult(r).breakdown
                /\ a.difficulty.level = DifficultyResult(r).difficulty
                /\ a.difficulty.description = DifficultyResult(r).description
                /\ a.difficulty.score = DifficultyResult(r).score
                /\ a.difficulty.factors = DifficultyResult(r).factors
                /\ a.difficulty.techniques = DifficultyResult(r).techniques_found
                /\ a.difficulty.stats.ingredients = DifficultyResult(r).ingredient_count
                /\ a.difficulty.stats.steps = DifficultyResult(r).step_count
                /\ a.time.category = TimeResult(r).category
                /\ a.time.total_minutes = TimeResult(r).total_minutes
                /\ a.time.display = TimeResult(r).time_display
                /\ a.time.description = TimeResult(r).description
                /\ a.time.methods = TimeResult(r).methods_detected
                /\ a.suggestions.diet_type = SuggestionResult(r).diet_type
                /\ a.suggestions.meal_type = SuggestionResult(r).meal_type
                /\ a.suggestions.healthy_alternatives = SuggestionResult(r).healthy_alternatives
                /\ a.suggestions.spice_recommendations = SuggestionResult(r).spice_suggestions
                /\ a.suggestions.serving_tips = SuggestionResult(r).serving_tips
                /\ a.suggestions.quick_tip = SuggestionResult(r).quick_tip

\* a 200 with a technique, a method and a spice found, and steps # ingredients
C7_Witness ==
    \E r \in Slots :
        /\ Responded(r, 200)
        /\ responses[r][1].body.analysis.difficulty.stats.steps
              # responses[r][1].body.analysis.difficulty.stats.ingredients
        /\ responses[r][1].body.analysis.time.methods # <<>>
        /\ responses[r][1].body.analysis.suggestions.spice_recommendations # <<>>

----------------------------------------------------------------------------
(* C8 *)

\* the keys of the database, as a set
Keys(db) == {db[i][1] : i \in 1..Len(db)}

ListingCorrect ==
    listing # NoValue =>
        LET l == listing.body.ingredients
        IN  /\ listing.code = 200
            /\ \A i \in 1..(Len(l) - 1) : StrLess(l[i], l[i + 1])
            /\ {l[i] : i \in 1..Len(l)} = Keys(CALORIE_DATABASE)
            /\ listing.body.count = Len(l)
            /\ listing.body.count = Cardinality(Keys(CALORIE_DATABASE))

\* C8: whatever the database holds, /api/ingredients returns all of its keys in
\* ascending order with their number as the count, and no step of any handler
\* changes the database.
C8_ReadOnlyListing ==
    [][CALORIE_DATABASE' = CALORIE_DATABASE /\ ListingCorrect']_vars

\* the keys were listed, from a database not loaded in sorted order, during a request
C8_Witness ==
    /\ listing # NoValue
    /\ Len(CALORIE_DATABASE) = 3
    /\ \E r \in Slots : pc[r] = "predict_time"

----------------------------------------------------------------------------
(* C9 *)

\* the response analyze_recipe gives to body d when nothing else runs
Alone(d, db) ==
    LET v == Validate(d)
        cd == estimate_calories(v.ingredients, db)
        dd == analyze_difficulty(v.ingredients, v.steps)
        td == predict_time(v.steps, dd.step_count)
        sg == generate_suggestions(v.ingredients, v.steps, dd.difficulty,
                                   cd.total_calories, cd.servings_estimate)
    IN  IF v.result = "400" THEN Error(400, v.message)
        ELSE IF v.result = "500" THEN Error(500, "An error occurred: " \o v.message)
        ELSE IF d.fault # "none" THEN Error(500, "An error occurred: Exception")
        ELSE [code |-> 200,
              body |-> Compile([recipe_name |-> v.recipe_name, ingredients |-> v.ingredients,
                                steps |-> v.steps, calorie_data |-> cd,
                                difficulty_data |-> dd, time_data |-> td,
                                suggestions |-> sg])]

\* C9: whatever the other workers do and whatever was handled before, the response
\* to a request is the one it gets when run alone, so equal requests get equal
\* responses.
C9_NoSharedState ==
    \A r \in Slots :
        pc[r] = "done" =>
            /\ responses[r] = <<Alone(request[r], CALORIE_DATABASE)>>
            /\ \A q \in Slots :
                  pc[q] = "done" /\ request[q] = request[r] => responses[q] = responses[r]

\* two workers have answered the same request with a 200 while handling overlapped
C9_Witness ==
    \E r, q \in Slots :
        /\ r # q
        /\ Responded(r, 200)
        /\ request[q] = request[r]
        /\ pc[q] = "generate_suggestions"

----------------------------------------------------------------------------
(* C10 *)

\* the i-th of the entries of l that have a non-blank character
NthNonBlank(l, i) ==
    LET solid == {j \in 1..Len(l) : NonBlank(l[j].v)}
    IN  l[CHOOSE j \in solid : Cardinality({k \in solid : k <= j}) = i].v

\* C10: every ingredient list an analyzer is called with holds non-empty strings
\* without leading or trailing whitespace, which are the non-blank entries of the
\* request's ingredients, trimmed, in their order, duplicates kept; all the analyzers
\* of a request get the same list.
C10_IngredientList ==
    \A r \in Slots :
        \A i \in 1..Len(calls[r]) :
            calls[r][i].fn # "predict_time" =>
                LET l == calls[r][i].args.ingredients
                    raw == request[r].ingredients.v
                IN  /\ HasIngredientList(request[r])
                    /\ \A k \in 1..Len(l) :
                          /\ l[k] # <<>>
                          /\ l[k][1] \notin Whitespace
                          /\ l[k][Len(l[k])] \notin Whitespace
                    /\ Len(l) = Cardinality({j \in 1..Len(raw) : NonBlank(raw[j].v)})
                    /\ \A k \in 1..Len(l) : l[k] = Core(NthNonBlank(raw, k))
                    /\ l = calls[r][1].args.ingredients

\* all analyzers were called with two ingredients, the first of which was padded
C10_Witness ==
    \E r \in Slots :
        /\ Len(calls[r]) = 4
        /\ Len(calls[r][4].args.ingredients) = 2
        /\ request[r].ingredients.v[1].v # calls[r][4].args.ingredients[1]

====
